---- MODULE Spec2Model ----
(***************************************************************************)
(* The per-connection LDAP session loop of server/src/infra/ldap_server.rs *)
(* (build_ldap_server and handle_incoming_message).                        *)
(*                                                                         *)
(* One connection is a sequential process: `requests.next()` pulls an item *)
(* from the FramedRead, handle_incoming_message unwraps it, calls the      *)
(* session's handle_ldap_message, sends one LdapMsg per returned operation *)
(* and flushes.  The handler (LdapHandler) and the codec (LdapCodec) are   *)
(* external: the handler's answer and the success of every encode / flush  *)
(* are nondeterministic.                                                   *)
(*                                                                         *)
(* `resp.send(item)` is futures_util::SinkExt::send: it feeds the item to  *)
(* the sink (poll_ready + start_send, which encodes the frame into the     *)
(* FramedWrite buffer) and then drives poll_flush before it completes.     *)
(* `resp.flush()` is SinkExt::flush: poll_flush alone.                     *)
(***************************************************************************)
EXTENDS Integers, Sequences, FiniteSets, TLC

\* ---------------------------------------------------------------- bounds
\* Longest inbound stream (items the FramedRead can yield before it ends).
MaxInbound == 2
\* Longest response batch the handler returns.
MaxBatch == 2

\* Longest inbound stream of the first of two connections that run interleaved.
MultiLen == 1
\* Longest inbound stream of each of two runs that are compared with each other.
PairLen == 1

\* ---------------------------------------------------------------- values
Conns == {"A", "B"}


SeqsUpTo(S, n) == UNION {[1..k -> S] : k \in 0..n}

\* An item yielded by the FramedRead: Ok(LdapMsg {msgid, op, ctrl}) or Err(io::Error).
LdapMsg(msgid, op, ctrl) == [kind |-> "msg", msgid |-> msgid, op |-> op, ctrl |-> ctrl]
DecodeErr == [kind |-> "err", msgid |-> 0, op |-> "-", ctrl |-> <<>>]
NoMsg == [kind |-> "none", msgid |-> 0, op |-> "-", ctrl |-> <<>>]

\* The messages a stream is made of: two requests with the same operation that
\* differ in msgid and controls, and one that reuses a msgid with another operation.
InboundMsgs ==
    { LdapMsg(1, "SearchRequest", <<>>),
      LdapMsg(2, "SearchRequest", <<"ctrl">>),
      LdapMsg(2, "UnbindRequest", <<>>) }
InboundItems == InboundMsgs \cup {DecodeErr}

\* Option<Vec<LdapOp>> returned by LdapHandler::handle_ldap_message.
None == [some |-> FALSE, ops |-> <<>>]
Some(ops) == [some |-> TRUE, ops |-> ops]
\* The batches the handler answers with: empty, or k results of which at most
\* one, at any position, is the SearchResultDone and the others are entries.
BatchWithDoneAt(k, d) ==
    [i \in 1..k |-> IF i = d THEN "SearchResultDone" ELSE "SearchResultEntry"]
Batches == {<<>>} \cup {BatchWithDoneAt(k, d) : k \in 1..MaxBatch, d \in 1..MaxBatch}
HandlerResults == {None} \cup {Some(b) : b \in Batches}

\* anyhow::Result<bool> of handle_incoming_message, and the connection's Result.
\* ctx is the chain of contexts, outermost first; cause names the failed call.
Pending == [tag |-> "Pending", val |-> FALSE, ctx |-> <<>>, cause |-> "-"]
Ok(b) == [tag |-> "Ok", val |-> b, ctx |-> <<>>, cause |-> "-"]
Err(cause) == [tag |-> "Err", val |-> FALSE, ctx |-> <<>>, cause |-> cause]
\* Result::context: wraps an Err, leaves an Ok alone.
Context(r, c) == IF r.tag = "Err" THEN [r EXCEPT !.ctx = <<c>> \o @] ELSE r

CtxReceive == "while receiving LDAP op"
CtxSend == "while sending a response: {:#}"
CtxFlush == "while flushing responses: {:#}"
CtxHandle == "while handling incoming messages"

\* Configuration values captured by the service factory closure.
LdapBaseDn == "dc=example,dc=com"
LdapUserDn == "cn=admin"

Event(ev, n, k, ok) == [ev |-> ev, n |-> n, k |-> k, ok |-> ok]

VARIABLES
    pc,        \* [Conns -> control point of the connection's future]
    requests,  \* [Conns -> [items, pos]]: FramedRead: the stream and how much was pulled
    resp,      \* [Conns -> [written, flushed]]: FramedWrite: frames accepted, frames delivered
    session,   \* [Conns -> [made, base_dn, user_dn]]: the LdapHandler of the connection
    msg,       \* [Conns -> the item bound to msg by `while let Some(msg)`]
    result,    \* [Conns -> the handler's Option<Vec<LdapOp>>]
    iter,      \* [Conns -> position of result.into_iter()]
    ret,       \* [Conns -> value returned by handle_incoming_message]
    outcome,   \* [Conns -> result of the connection's async block]
    calls,     \* [Conns -> sequence of the arguments handle_ldap_message was called with]
    returns,   \* [Conns -> sequence of the values handle_ldap_message returned]
    log        \* [Conns -> sequence of the events of the connection]

vars == <<pc, requests, resp, session, msg, result, iter, ret, outcome, calls, returns, log>>

Max(a, b) == IF a >= b THEN a ELSE b

\* ------------------------------------------------------------ FramedWrite
Buffer(w) == SubSeq(w.written, w.flushed + 1, Len(w.written))
Wire(w) == SubSeq(w.written, 1, w.flushed)
\* Sink::start_send: the frame is encoded into the write buffer.
StartSend(w, item) == [w EXCEPT !.written = Append(@, item)]
\* Sink::poll_flush completing: everything buffered is delivered.
PollFlush(w) == [w EXCEPT !.flushed = Len(w.written)]
\* Sink::poll_flush failing: no frame, or only part of the buffered frames, got out.
PollFlushFailed(w) ==
    {[w EXCEPT !.flushed = f] : f \in w.flushed .. Max(w.flushed, Len(w.written) - 1)}

\* ------------------------------------------------- handle_incoming_message
\* Variant: the reply is numbered one past the request instead of echoing it.
OutMsgOwnId(m, result_op) == LdapMsg(m.msgid + 1, result_op, <<>>)

\* Variant: the reply carries the controls of the request.
OutMsgEchoCtrl(m, result_op) == LdapMsg(m.msgid, result_op, m.ctrl)

\* The reply to msg for one response op: LdapMsg { msgid: msg.msgid, op, ctrl: vec![] }.
OutMsg(m, result_op) == LdapMsg(m.msgid, result_op, <<>>)

\* Variant: the batch is drained from the back (pop) instead of iterated.
ResultOpFromBack(r, i) == r.ops[Len(r.ops) + 1 - i]

\* The i-th element yielded by result.into_iter().
ResultOp(r, i) == r.ops[i]

\* What the handler may answer to an operation (opaque to the loop).
HandleLdapMessage(op) == HandlerResults

\* Variant: the loop ignores the bool and goes on after every Ok.
LoopContinuesOnAnyOk(r) == r.tag = "Ok"

\* `while let Some(msg) = requests.next().await`: the loop goes on after a call
\* that returned Ok(true), breaks on Ok(false).
LoopContinues(r) == r.tag = "Ok" /\ r.val

Log(c, e) == log' = [log EXCEPT ![c] = Append(@, e)]

\* ----------------------------------------------------------------- actions
\* fn_service closure: split the stream, build the codecs and the session.
Accept(c) ==
    /\ pc[c] = "idle"
    /\ session' = [session EXCEPT ![c] =
            [made |-> @.made + 1, base_dn |-> LdapBaseDn, user_dn |-> LdapUserDn]]
    /\ pc' = [pc EXCEPT ![c] = "next"]
    /\ Log(c, Event("accept", 0, 0, TRUE))
    /\ UNCHANGED <<requests, resp, msg, result, iter, ret, outcome, calls, returns>>

\* Variant: the end of the stream is reported as an error of the connection.
RequestsNextEofIsError(c) ==
    /\ pc[c] = "next"
    /\ IF requests[c].pos = Len(requests[c].items)
       THEN /\ outcome' = [outcome EXCEPT ![c] = Context(Err("eof"), CtxHandle)]
            /\ pc' = [pc EXCEPT ![c] = "done"]
            /\ Log(c, Event("eof", requests[c].pos, 0, TRUE))
            /\ UNCHANGED <<requests, msg>>
       ELSE /\ requests' = [requests EXCEPT ![c].pos = @ + 1]
            /\ msg' = [msg EXCEPT ![c] = requests[c].items[requests[c].pos + 1]]
            /\ pc' = [pc EXCEPT ![c] = "handle"]
            /\ Log(c, Event("next", requests[c].pos + 1, 0, TRUE))
            /\ UNCHANGED outcome
    /\ UNCHANGED <<resp, session, result, iter, ret, calls, returns>>

\* Variant: a bare `loop` around `if let Some(msg)`: at the end of the stream
\* the loop polls the reader again and again instead of ending.
RequestsNextSpinsAtEof(c) ==
    /\ pc[c] = "next"
    /\ IF requests[c].pos = Len(requests[c].items)
       THEN UNCHANGED <<pc, requests, msg, outcome, log>>
       ELSE /\ requests' = [requests EXCEPT ![c].pos = @ + 1]
            /\ msg' = [msg EXCEPT ![c] = requests[c].items[requests[c].pos + 1]]
            /\ pc' = [pc EXCEPT ![c] = "handle"]
            /\ Log(c, Event("next", requests[c].pos + 1, 0, TRUE))
            /\ UNCHANGED outcome
    /\ UNCHANGED <<resp, session, result, iter, ret, calls, returns>>

\* requests.next().await
RequestsNext(c) ==
    /\ pc[c] = "next"
    /\ IF requests[c].pos = Len(requests[c].items)
       THEN \* None: the loop ends, the block returns Ok(stream)
            /\ outcome' = [outcome EXCEPT ![c] = Ok(TRUE)]
            /\ pc' = [pc EXCEPT ![c] = "done"]
            /\ Log(c, Event("eof", requests[c].pos, 0, TRUE))
            /\ UNCHANGED <<requests, msg>>
       ELSE /\ requests' = [requests EXCEPT ![c].pos = @ + 1]
            /\ msg' = [msg EXCEPT ![c] = requests[c].items[requests[c].pos + 1]]
            /\ pc' = [pc EXCEPT ![c] = "handle"]
            /\ Log(c, Event("next", requests[c].pos + 1, 0, TRUE))
            /\ UNCHANGED outcome
    /\ UNCHANGED <<resp, session, result, iter, ret, calls, returns>>

\* Variant: an undecodable item is skipped and the loop goes on to the next one.
ReceiveErrorSkipped(c) ==
    /\ pc[c] = "handle"
    /\ msg[c].kind = "err"
    /\ ret' = [ret EXCEPT ![c] = Ok(TRUE)]
    /\ pc' = [pc EXCEPT ![c] = "ret"]
    /\ Log(c, Event("recv", requests[c].pos, 0, FALSE))
    /\ UNCHANGED <<requests, resp, session, msg, result, iter, outcome, calls, returns>>

\* let msg = msg.context("while receiving LDAP op")?  on an Err item
ReceiveError(c) ==
    /\ pc[c] = "handle"
    /\ msg[c].kind = "err"
    /\ ret' = [ret EXCEPT ![c] = Context(Err("decode"), CtxReceive)]
    /\ pc' = [pc EXCEPT ![c] = "ret"]
    /\ Log(c, Event("recv", requests[c].pos, 0, FALSE))
    /\ UNCHANGED <<requests, resp, session, msg, result, iter, outcome, calls, returns>>

\* Variant: the handler is given the whole message, msgid and controls included.
DispatchWholeMsg(c) ==
    /\ pc[c] = "handle"
    /\ msg[c].kind = "msg"
    /\ calls' = [calls EXCEPT ![c] = Append(@, msg[c])]
    /\ pc' = [pc EXCEPT ![c] = "dispatch"]
    /\ Log(c, Event("dispatch", requests[c].pos, 0, TRUE))
    /\ UNCHANGED <<requests, resp, session, msg, result, iter, ret, outcome, returns>>

\* Variant: a handler is built for every message instead of once per connection.
DispatchFreshSession(c) ==
    /\ pc[c] = "handle"
    /\ msg[c].kind = "msg"
    /\ session' = [session EXCEPT ![c].made = @ + 1]
    /\ calls' = [calls EXCEPT ![c] = Append(@, msg[c].op)]
    /\ pc' = [pc EXCEPT ![c] = "dispatch"]
    /\ Log(c, Event("dispatch", requests[c].pos, 0, TRUE))
    /\ UNCHANGED <<requests, resp, msg, result, iter, ret, outcome, returns>>

\* session.handle_ldap_message(msg.op) is called
Dispatch(c) ==
    /\ pc[c] = "handle"
    /\ msg[c].kind = "msg"
    /\ calls' = [calls EXCEPT ![c] = Append(@, msg[c].op)]
    /\ pc' = [pc EXCEPT ![c] = "dispatch"]
    /\ Log(c, Event("dispatch", requests[c].pos, 0, TRUE))
    /\ UNCHANGED <<requests, resp, session, msg, result, iter, ret, outcome, returns>>

\* Variant: a closing frame is sent when the handler answers None.
HandlerReturnsFromWithNotice(c, R) ==
    /\ pc[c] = "dispatch"
    /\ \E r \in R :
        /\ result' = [result EXCEPT ![c] = r]
        /\ returns' = [returns EXCEPT ![c] = Append(@, r)]
        /\ IF r.some
           THEN /\ iter' = [iter EXCEPT ![c] = 1]
                /\ pc' = [pc EXCEPT ![c] = "send"]
                /\ UNCHANGED <<ret, resp>>
           ELSE /\ ret' = [ret EXCEPT ![c] = Ok(FALSE)]
                /\ pc' = [pc EXCEPT ![c] = "ret"]
                /\ resp' = [resp EXCEPT ![c] =
                        PollFlush(StartSend(@, OutMsg(msg[c], "ExtendedResponse")))]
                /\ UNCHANGED iter
        /\ Log(c, Event("return", requests[c].pos, Len(r.ops), r.some))
    /\ UNCHANGED <<requests, session, msg, outcome, calls>>

\* ... .await completes with an answer of the set R: match on the Option
HandlerReturnsFrom(c, R) ==
    /\ pc[c] = "dispatch"
    /\ \E r \in R :
        /\ result' = [result EXCEPT ![c] = r]
        /\ returns' = [returns EXCEPT ![c] = Append(@, r)]
        /\ IF r.some
           THEN /\ iter' = [iter EXCEPT ![c] = 1]
                /\ pc' = [pc EXCEPT ![c] = "send"]
                /\ UNCHANGED ret
           ELSE \* None => return Ok(false)
                /\ ret' = [ret EXCEPT ![c] = Ok(FALSE)]
                /\ pc' = [pc EXCEPT ![c] = "ret"]
                /\ UNCHANGED iter
        /\ Log(c, Event("return", requests[c].pos, Len(r.ops), r.some))
    /\ UNCHANGED <<requests, resp, session, msg, outcome, calls>>

\* Variant: an empty Vec is taken for "no answer" and ends the connection.
HandlerReturnsEmptyIsNone(c) ==
    /\ pc[c] = "dispatch"
    /\ \E r \in HandleLdapMessage(msg[c].op) :
        /\ result' = [result EXCEPT ![c] = r]
        /\ returns' = [returns EXCEPT ![c] = Append(@, r)]
        /\ IF r.some /\ r.ops /= <<>>
           THEN /\ iter' = [iter EXCEPT ![c] = 1]
                /\ pc' = [pc EXCEPT ![c] = "send"]
                /\ UNCHANGED ret
           ELSE /\ ret' = [ret EXCEPT ![c] = Ok(FALSE)]
                /\ pc' = [pc EXCEPT ![c] = "ret"]
                /\ UNCHANGED iter
        /\ Log(c, Event("return", requests[c].pos, Len(r.ops), r.some))
    /\ UNCHANGED <<requests, resp, session, msg, outcome, calls>>

HandlerReturns(c) == HandlerReturnsFrom(c, HandleLdapMessage(msg[c].op))

\* Variant: the result of send is dropped (no `?`), the loop goes on after a failure.
SendOutcomeErrorIgnored(c, how) ==
    LET item == OutMsg(msg[c], ResultOp(result[c], iter[c]))
        n == requests[c].pos
        k == iter[c]
    IN  /\ iter' = [iter EXCEPT ![c] = @ + 1]
        /\ UNCHANGED <<ret, pc>>
        /\ CASE how = "ok" ->
               /\ resp' = [resp EXCEPT ![c] = PollFlush(StartSend(@, item))]
               /\ Log(c, Event("sendflush", n, k, TRUE))
          [] how = "encode" ->
               /\ Log(c, Event("send", n, k, FALSE))
               /\ UNCHANGED resp
          [] how = "flush" ->
               /\ \E w \in PollFlushFailed(StartSend(resp[c], item)) :
                      resp' = [resp EXCEPT ![c] = w]
               /\ Log(c, Event("sendflush", n, k, FALSE))

\* Variant: a failed send is tried again instead of being returned.
SendOutcomeRetry(c, how) ==
    LET item == OutMsg(msg[c], ResultOp(result[c], iter[c]))
        n == requests[c].pos
        k == iter[c]
    IN  /\ UNCHANGED <<ret, pc>>
        /\ CASE how = "ok" ->
               /\ resp' = [resp EXCEPT ![c] = PollFlush(StartSend(@, item))]
               /\ iter' = [iter EXCEPT ![c] = @ + 1]
               /\ Log(c, Event("sendflush", n, k, TRUE))
          [] how = "encode" ->
               /\ Log(c, Event("send", n, k, FALSE))
               /\ UNCHANGED <<resp, iter>>
          [] how = "flush" ->
               /\ \E w \in PollFlushFailed(StartSend(resp[c], item)) :
                      resp' = [resp EXCEPT ![c] = w]
               /\ Log(c, Event("sendflush", n, k, FALSE))
               /\ UNCHANGED iter

\* Variant: one FramedWrite, that of connection A, is used by every connection.
SendOutcomeSharedWriter(c, how) ==
    LET item == OutMsg(msg[c], ResultOp(result[c], iter[c]))
        n == requests[c].pos
        k == iter[c]
    IN  CASE how = "ok" ->
               /\ resp' = [resp EXCEPT !["A"] = PollFlush(StartSend(@, item))]
               /\ iter' = [iter EXCEPT ![c] = @ + 1]
               /\ Log(c, Event("sendflush", n, k, TRUE))
               /\ UNCHANGED <<ret, pc>>
          [] how = "encode" ->
               /\ ret' = [ret EXCEPT ![c] = Context(Err("encode"), CtxSend)]
               /\ pc' = [pc EXCEPT ![c] = "ret"]
               /\ Log(c, Event("send", n, k, FALSE))
               /\ UNCHANGED <<resp, iter>>
          [] how = "flush" ->
               /\ \E w \in PollFlushFailed(StartSend(resp["A"], item)) :
                      resp' = [resp EXCEPT !["A"] = w]
               /\ ret' = [ret EXCEPT ![c] = Context(Err("flush"), CtxSend)]
               /\ pc' = [pc EXCEPT ![c] = "ret"]
               /\ Log(c, Event("sendflush", n, k, FALSE))
               /\ UNCHANGED iter

\* One iteration of the for loop: resp.send(LdapMsg{..}).await.context(..)?
\* how: "ok", or the call that failed inside send ("encode": start_send,
\* "flush": the poll_flush that send drives after feeding the item).
SendOutcome(c, how) ==
    LET item == OutMsg(msg[c], ResultOp(result[c], iter[c]))
        n == requests[c].pos
        k == iter[c]
    IN  CASE how = "ok" ->
               /\ resp' = [resp EXCEPT ![c] = PollFlush(StartSend(@, item))]
               /\ iter' = [iter EXCEPT ![c] = @ + 1]
               /\ Log(c, Event("sendflush", n, k, TRUE))
               /\ UNCHANGED <<ret, pc>>
          [] how = "encode" ->
               /\ ret' = [ret EXCEPT ![c] = Context(Err("encode"), CtxSend)]
               /\ pc' = [pc EXCEPT ![c] = "ret"]
               /\ Log(c, Event("send", n, k, FALSE))
               /\ UNCHANGED <<resp, iter>>
          [] how = "flush" ->
               /\ \E w \in PollFlushFailed(StartSend(resp[c], item)) :
                      resp' = [resp EXCEPT ![c] = w]
               /\ ret' = [ret EXCEPT ![c] = Context(Err("flush"), CtxSend)]
               /\ pc' = [pc EXCEPT ![c] = "ret"]
               /\ Log(c, Event("sendflush", n, k, FALSE))
               /\ UNCHANGED iter

Send(c) ==
    /\ pc[c] = "send"
    /\ iter[c] <= Len(result[c].ops)
    /\ \E how \in {"ok", "encode", "flush"} : SendOutcome(c, how)
    /\ UNCHANGED <<requests, session, msg, result, outcome, calls, returns>>

\* Variant: the function returns after the first reply instead of after the batch.
FlushAfterFirst(c) ==
    /\ pc[c] = "send"
    /\ iter[c] > 1 \/ iter[c] > Len(result[c].ops)
    /\ resp' = [resp EXCEPT ![c] = PollFlush(@)]
    /\ ret' = [ret EXCEPT ![c] = Ok(TRUE)]
    /\ Log(c, Event("flush", requests[c].pos, 0, TRUE))
    /\ pc' = [pc EXCEPT ![c] = "ret"]
    /\ UNCHANGED <<requests, session, msg, result, iter, outcome, calls, returns>>

\* After the for loop: resp.flush().await.context(..)? ; Ok(true)
FlushOutcome(c, ok) ==
    IF ok
    THEN /\ resp' = [resp EXCEPT ![c] = PollFlush(@)]
         /\ ret' = [ret EXCEPT ![c] = Ok(TRUE)]
    ELSE /\ \E w \in PollFlushFailed(resp[c]) : resp' = [resp EXCEPT ![c] = w]
         /\ ret' = [ret EXCEPT ![c] = Context(Err("flush"), CtxFlush)]

Flush(c) ==
    /\ pc[c] = "send"
    /\ iter[c] > Len(result[c].ops)
    /\ \E ok \in BOOLEAN :
        /\ FlushOutcome(c, ok)
        /\ Log(c, Event("flush", requests[c].pos, 0, ok))
    /\ pc' = [pc EXCEPT ![c] = "ret"]
    /\ UNCHANGED <<requests, session, msg, result, iter, outcome, calls, returns>>

\* Variant: the result of the connection is reported but the loop is not left.
LoopStepNoBreak(c) ==
    /\ pc[c] = "ret"
    /\ pc' = [pc EXCEPT ![c] = "next"]
    /\ IF LoopContinues(ret[c])
       THEN UNCHANGED <<outcome, log>>
       ELSE /\ outcome' = [outcome EXCEPT ![c] =
                    IF ret[c].tag = "Err" THEN Context(ret[c], CtxHandle) ELSE Ok(TRUE)]
            /\ Log(c, Event("exit", requests[c].pos, 0, ret[c].tag = "Ok"))
    /\ ret' = [ret EXCEPT ![c] = Pending]
    /\ UNCHANGED <<requests, resp, session, msg, result, iter, calls, returns>>

\* The loop body around the call: `.context("while handling incoming messages")?`
\* and `if !.. { break; }`; after the loop the block returns Ok(stream).
LoopStep(c) ==
    /\ pc[c] = "ret"
    /\ IF LoopContinues(ret[c])
       THEN /\ pc' = [pc EXCEPT ![c] = "next"]
            /\ UNCHANGED <<outcome, log>>
       ELSE /\ pc' = [pc EXCEPT ![c] = "done"]
            /\ outcome' = [outcome EXCEPT ![c] =
                    IF ret[c].tag = "Err" THEN Context(ret[c], CtxHandle) ELSE Ok(TRUE)]
            /\ Log(c, Event("exit", requests[c].pos, 0, ret[c].tag = "Ok"))
    /\ ret' = [ret EXCEPT ![c] = Pending]
    /\ UNCHANGED <<requests, resp, session, msg, result, iter, calls, returns>>

\* ----------------------------------------------------------- specification
Streams == SeqsUpTo(InboundItems, MaxInbound)

\* The connections are accepted with the streams of f, nothing read or written.
InitWith(F) ==
    /\ pc = [c \in Conns |-> "idle"]
    /\ requests \in {[c \in Conns |-> [items |-> f[c], pos |-> 0]] : f \in F}
    /\ resp = [c \in Conns |-> [written |-> <<>>, flushed |-> 0]]
    /\ session = [c \in Conns |-> [made |-> 0, base_dn |-> "", user_dn |-> ""]]
    /\ msg = [c \in Conns |-> NoMsg]
    /\ result = [c \in Conns |-> None]
    /\ iter = [c \in Conns |-> 0]
    /\ ret = [c \in Conns |-> Pending]
    /\ outcome = [c \in Conns |-> Pending]
    /\ calls = [c \in Conns |-> <<>>]
    /\ returns = [c \in Conns |-> <<>>]
    /\ log = [c \in Conns |-> <<>>]

Step(c) ==
    \/ Accept(c)
    \/ RequestsNext(c)
    \/ ReceiveError(c)
    \/ Dispatch(c)
    \/ HandlerReturns(c)
    \/ Send(c)
    \/ Flush(c)
    \/ LoopStep(c)

\* One accepted connection.
Init == InitWith({f \in [Conns -> Streams] : f["B"] = <<>>})
Next == \E c \in {"A"} : Step(c)
Spec == Init /\ [][Next]_vars

\* The runtime keeps polling the connection's future, and every await of the
\* loop (next item, handler, send, flush) completes: a step that can be taken
\* is taken.
FairSpec == Spec /\ WF_vars(Next)

\* Two runs of the loop, one after the other, over streams that carry the same
\* operations (they may differ in msgid and controls), against the same
\* handler: given the same arguments so far, it returns what it returned then.
Other(c) == CHOOSE d \in Conns : d /= c

SameOps(s, t) ==
    /\ Len(s) = Len(t)
    /\ \A i \in 1..Len(s) : s[i].kind = t[i].kind /\ s[i].op = t[i].op

SameHandler(c) ==
    LET d == Other(c)
        i == Len(calls[c])
    IN  IF Len(returns[d]) >= i /\ SubSeq(calls[d], 1, i) = calls[c]
        THEN {returns[d][i]}
        ELSE HandleLdapMessage(msg[c].op)

StepPair(c) ==
    \/ Accept(c)
    \/ RequestsNext(c)
    \/ ReceiveError(c)
    \/ Dispatch(c)
    \/ HandlerReturnsFrom(c, SameHandler(c))
    \/ Send(c)
    \/ Flush(c)
    \/ LoopStep(c)

InitPair ==
    InitWith({f \in [Conns -> SeqsUpTo(InboundItems, PairLen)] : SameOps(f["A"], f["B"])})
NextPair == StepPair("A") \/ (pc["A"] = "done" /\ StepPair("B"))
SpecPair == InitPair /\ [][NextPair]_vars

\* Two connections accepted by the same service, their futures interleaved.
\* A receives searches with msgid 1 (or garbage), B at most one unbind with
\* msgid 2, so that anything that crosses from one connection to the other shows.
MultiStreams(c) ==
    IF c = "A" THEN SeqsUpTo({LdapMsg(1, "SearchRequest", <<>>), DecodeErr}, MultiLen)
               ELSE {<<>>, <<LdapMsg(2, "UnbindRequest", <<>>)>>}

InitMulti == InitWith({f \in [Conns -> Streams] : \A c \in Conns : f[c] \in MultiStreams(c)})
NextMulti == \E c \in Conns : Step(c)
SpecMulti == InitMulti /\ [][NextMulti]_vars

\* ------------------------------------------------------ reading the history
\* The events of connection c that handed a frame to the FramedWrite.
IsWrite(e) == e.ev = "sendflush"
Writes(c) == SelectSeq(log[c], IsWrite)
\* The events of connection c in which the FramedWrite was flushed.
IsFlush(e) == e.ev \in {"sendflush", "flush"}
\* Indices of the events of c that satisfy a test on the item number.
EventsOf(c, n) == {j \in 1..Len(log[c]) : log[c][j].n = n}
Item(c, n) == requests[c].items[n]
PulledMsgIds(c) == {Item(c, n).msgid : n \in 1..requests[c].pos}

\* ------------------------------------------------------------------- C1
\* C1: every frame handed to the writer carries the msgid of the inbound
\* message being handled when it was sent; the frames follow the order of the
\* inbound messages; no frame has a msgid that was not received.
C1_MsgIdEchoed ==
    \A c \in Conns :
        LET W == Writes(c) IN
        /\ Len(resp[c].written) = Len(W)
        /\ \A j \in 1..Len(W) :
              /\ W[j].n \in 1..requests[c].pos
              /\ Item(c, W[j].n).kind = "msg"
              /\ resp[c].written[j].msgid = Item(c, W[j].n).msgid
              /\ resp[c].written[j].msgid \in PulledMsgIds(c)
              /\ j > 1 => W[j-1].n <= W[j].n

\* Frames for two inbound messages with different msgids have been written.
C1_Witness ==
    /\ Len(resp["A"].written) >= 2
    /\ resp["A"].written[1].msgid = 1
    /\ resp["A"].written[Len(resp["A"].written)].msgid = 2
    /\ requests["A"].items[1].msgid = 1

\* ------------------------------------------------------------------- C2
\* C2: while the batch of the current message is being sent, and after it has
\* been sent, the frames written for that message are exactly the batch's
\* operations so far, one frame per operation, in batch order.
C2_BatchInOrder ==
    \A c \in Conns :
        (pc[c] = "send" \/ (pc[c] = "ret" /\ ret[c] = Ok(TRUE))) =>
            LET k == IF pc[c] = "send" THEN iter[c] - 1 ELSE Len(result[c].ops)
                W == resp[c].written
                base == Len(W) - k
                n == requests[c].pos
            IN  /\ base >= 0
                /\ Cardinality({j \in EventsOf(c, n) : IsWrite(log[c][j])}) = k
                /\ \A i \in 1..k :
                      W[base + i] = [kind |-> "msg", msgid |-> msg[c].msgid,
                                     op |-> result[c].ops[i], ctrl |-> <<>>]

\* A batch [SearchResultEntry, SearchResultDone] has been sent in full.
C2_Witness ==
    /\ pc["A"] = "ret"
    /\ ret["A"] = Ok(TRUE)
    /\ result["A"].ops = <<"SearchResultEntry", "SearchResultDone">>
    /\ Len(resp["A"].written) = 2

\* ------------------------------------------------------------------- C3
\* C3: once the handler has answered None for item n, nothing is written or
\* flushed for n, no further item is pulled, and the only thing that follows
\* is the loop's exit with Ok.
C3_TerminateExits ==
    \A c \in Conns : \A j \in 1..Len(log[c]) :
        (log[c][j].ev = "return" /\ ~log[c][j].ok) =>
            /\ requests[c].pos = log[c][j].n
            /\ \A i \in EventsOf(c, log[c][j].n) : ~IsFlush(log[c][i]) /\ log[c][i].ev /= "send"
            /\ \/ j = Len(log[c]) /\ pc[c] = "ret" /\ ret[c] = Ok(FALSE)
               \/ /\ j = Len(log[c]) - 1
                  /\ log[c][j+1] = Event("exit", log[c][j].n, 0, TRUE)
                  /\ pc[c] = "done"
                  /\ outcome[c].tag = "Ok"

\* The loop has exited on None with another valid message still on the stream.
C3_Witness ==
    /\ pc["A"] = "done"
    /\ result["A"] = None
    /\ requests["A"].pos = 1
    /\ Len(requests["A"].items) = 2
    /\ requests["A"].items[2].kind = "msg"
    /\ \E j \in 1..Len(log["A"]) : log["A"][j].ev = "return" /\ ~log["A"][j].ok

\* ------------------------------------------------------------------- C4
\* C4: once an Err item has been received as item n, the handler is not called
\* for it, nothing is written or flushed for it, no further item is pulled,
\* and the only thing that follows is the loop's exit with an error.
C4_DecodeErrorFatal ==
    \A c \in Conns : \A j \in 1..Len(log[c]) :
        log[c][j].ev = "recv" =>
            /\ requests[c].pos = log[c][j].n
            /\ \A i \in EventsOf(c, log[c][j].n) : log[c][i].ev \in {"next", "recv", "exit"}
            /\ Len(calls[c]) = log[c][j].n - 1
            /\ \/ j = Len(log[c]) /\ pc[c] = "ret" /\ ret[c].tag = "Err"
               \/ /\ j = Len(log[c]) - 1
                  /\ log[c][j+1] = Event("exit", log[c][j].n, 0, FALSE)
                  /\ pc[c] = "done"
                  /\ outcome[c].tag = "Err"

\* The connection has ended on a decode error after one answered message,
\* with a valid message still on the stream.
C4_Witness ==
    /\ pc["A"] = "done"
    /\ outcome["A"].tag = "Err"
    /\ outcome["A"].cause = "decode"
    /\ requests["A"].pos = 1
    /\ Len(requests["A"].items) = 2
    /\ requests["A"].items[2].kind = "msg"

\* ------------------------------------------------------------------- C5
\* C5: once a send or a flush has failed while item n was being answered, the
\* only thing that follows is the loop's exit with an error: no further
\* operation of the batch is written, no item is pulled, no handler call is
\* made; every frame the writer took is still there exactly once, and the
\* frames of the earlier items are still on the wire.
IsSendFailure(e) == e.ev \in {"send", "sendflush", "flush"} /\ ~e.ok
WritesFor(c, n) == {j \in EventsOf(c, n) : IsWrite(log[c][j])}
WritesBefore(c, n) == {j \in 1..Len(log[c]) : IsWrite(log[c][j]) /\ log[c][j].n < n}
DispatchesOf(c) == {j \in 1..Len(log[c]) : log[c][j].ev = "dispatch"}

C5_WriteFailureFatal ==
    \A c \in Conns : \A j \in 1..Len(log[c]) :
        IsSendFailure(log[c][j]) =>
            LET e == log[c][j] IN
            /\ \/ /\ j = Len(log[c])
                  /\ pc[c] = "ret"
                  /\ ret[c].tag = "Err"
               \/ /\ j = Len(log[c]) - 1
                  /\ log[c][j+1] = Event("exit", e.n, 0, FALSE)
                  /\ pc[c] = "done"
                  /\ outcome[c].tag = "Err"
            /\ requests[c].pos = e.n
            /\ Len(calls[c]) = Cardinality(DispatchesOf(c))
            /\ Cardinality(WritesFor(c, e.n)) =
                  (CASE e.ev = "send" -> e.k - 1
                     [] e.ev = "sendflush" -> e.k
                     [] e.ev = "flush" -> Len(result[c].ops))
            /\ Len(resp[c].written) = Len(Writes(c))
            /\ resp[c].flushed >= Cardinality(WritesBefore(c, e.n))
            /\ resp[c].flushed <= Len(resp[c].written)

\* The connection has ended because the second send of the second item's
\* batch failed, after the first item's reply had been flushed.
C5_Witness ==
    /\ pc["A"] = "done"
    /\ outcome["A"].tag = "Err"
    /\ requests["A"].pos = 2
    /\ \E j \in 1..Len(log["A"]) :
          IsSendFailure(log["A"][j]) /\ log["A"][j].n = 2 /\ log["A"][j].k = 2
    /\ Cardinality(WritesBefore("A", 2)) >= 1
    /\ Len(result["A"].ops) = 2

\* ------------------------------------------------------------------- C6
\* C6: when the handler answers item n with Some of an empty Vec, the next
\* event is the flush, with no frame written for n; if the flush succeeds the
\* call returns Ok(true) and what follows is the next pull of the reader.
C6_EmptyBatchContinues ==
    \A c \in Conns : \A j \in 1..Len(log[c]) :
        (log[c][j].ev = "return" /\ log[c][j].ok /\ log[c][j].k = 0) =>
            LET n == log[c][j].n IN
            /\ WritesFor(c, n) = {}
            /\ j = Len(log[c]) => pc[c] = "send" /\ iter[c] > Len(result[c].ops)
            /\ j < Len(log[c]) => log[c][j+1].ev = "flush" /\ log[c][j+1].n = n
            /\ (j + 1 = Len(log[c]) /\ log[c][j+1].ok) =>
                  \/ pc[c] = "ret" /\ ret[c] = Ok(TRUE)
                  \/ pc[c] = "next"
            /\ (j + 1 < Len(log[c]) /\ log[c][j+1].ok) =>
                  \/ log[c][j+2] = Event("next", n + 1, 0, TRUE)
                  \/ log[c][j+2] = Event("eof", n, 0, TRUE)

\* An empty batch for item 1 was flushed and item 2 has been pulled.
C6_Witness ==
    /\ Len(log["A"]) >= 6
    /\ log["A"][4] = Event("return", 1, 0, TRUE)
    /\ log["A"][5] = Event("flush", 1, 0, TRUE)
    /\ log["A"][6] = Event("next", 2, 0, TRUE)
    /\ resp["A"].written = <<>>

\* ------------------------------------------------------------------- C7
\* C7: item n+1 is pulled only after the handler's batch for item n has been
\* sent in full and flushed; items are dispatched in arrival order, each at
\* most once; at most one handler call is in progress.
Returned(c) == {j \in 1..Len(log[c]) : log[c][j].ev = "return"}

C7_OneAtATime ==
    \A c \in Conns :
        LET R == Returned(c)
            D == DispatchesOf(c)
        IN
        /\ \A j \in 1..Len(log[c]) :
              (log[c][j].ev = "next" /\ log[c][j].n >= 2) =>
                  /\ j >= 2
                  /\ log[c][j-1] = Event("flush", log[c][j].n - 1, 0, TRUE)
                  /\ \E r \in R :
                        /\ log[c][r].n = log[c][j].n - 1
                        /\ log[c][r].ok
                        /\ r + log[c][r].k + 1 = j - 1
                        /\ \A i \in 1..log[c][r].k :
                              log[c][r+i] = Event("sendflush", log[c][j].n - 1, i, TRUE)
        /\ \A j \in D :
              /\ j >= 2
              /\ log[c][j-1] = Event("next", log[c][j].n, 0, TRUE)
              /\ \A i \in D : i < j => log[c][i].n < log[c][j].n
        /\ Cardinality(D) - Cardinality(R)
              = (IF pc[c] = "dispatch" THEN 1 ELSE 0)

\* The second item is in the handler after a two-frame reply to the first.
C7_Witness ==
    /\ pc["A"] = "dispatch"
    /\ requests["A"].pos = 2
    /\ Len(resp["A"].written) = 2
    /\ resp["A"].flushed = 2

\* ------------------------------------------------------------------- C8
\* C8: for every batch that was sent and flushed, the writer was flushed
\* exactly once while that item was answered, and that flush is the last
\* event of the item.
FlushesFor(c, n) == {j \in EventsOf(c, n) : IsFlush(log[c][j])}

C8_FlushedOncePerBatch ==
    \A c \in Conns : \A j \in 1..Len(log[c]) :
        (log[c][j].ev = "flush" /\ log[c][j].ok) =>
            /\ FlushesFor(c, log[c][j].n) = {j}
            /\ \A i \in WritesFor(c, log[c][j].n) : i < j

\* ------------------------------------------------------------------- C9
\* C9: every error carries the context of its phase: a decode failure the
\* receive context, a failure to encode or write a reply the send context, a
\* failure of a flush of the writer the flush context.
PhaseContext(r) ==
    r.tag = "Err" =>
        LET has(x) == \E i \in 1..Len(r.ctx) : r.ctx[i] = x IN
        /\ r.cause = "decode" => has(CtxReceive) /\ ~has(CtxSend) /\ ~has(CtxFlush)
        /\ r.cause = "encode" => has(CtxSend) /\ ~has(CtxReceive) /\ ~has(CtxFlush)
        /\ r.cause = "flush" => has(CtxFlush) /\ ~has(CtxReceive) /\ ~has(CtxSend)

C9_PhaseContext ==
    \A c \in Conns : PhaseContext(ret[c]) /\ PhaseContext(outcome[c])

\* ------------------------------------------------------------------ C10
\* C10: when requests.next() yields None the connection ends with Ok: that is
\* the last event, every item of the stream was pulled, nothing is left in the
\* writer's buffer and the writer holds exactly the frames sent before.
C10_EofEndsOk ==
    \A c \in Conns : \A j \in 1..Len(log[c]) :
        log[c][j].ev = "eof" =>
            /\ j = Len(log[c])
            /\ pc[c] = "done"
            /\ outcome[c] = Ok(TRUE)
            /\ requests[c].pos = Len(requests[c].items)
            /\ j >= 2
            /\ \/ log[c][j-1].ev = "accept"
               \/ log[c][j-1] = Event("flush", requests[c].pos, 0, TRUE)
            /\ resp[c].flushed = Len(resp[c].written)
            /\ Len(resp[c].written) = Len(Writes(c))

\* A stream of two items ended after both were answered.
C10_Witness ==
    /\ pc["A"] = "done"
    /\ outcome["A"] = Ok(TRUE)
    /\ requests["A"].pos = 2
    /\ Len(requests["A"].items) = 2
    /\ Len(resp["A"].written) >= 2
    /\ log["A"][Len(log["A"])].ev = "eof"

\* ------------------------------------------------------------------ C11
\* C11: of two runs over streams with the same operations, the handler is
\* called with the same arguments in the same order and the frames written
\* carry the same operations in the same order, as far as both runs got; when
\* both runs end with Ok the calls and the operations written are equal, and
\* the frames differ at most in the msgid.
Min(a, b) == IF a <= b THEN a ELSE b
AgreeSoFar(s, t) == SubSeq(s, 1, Min(Len(s), Len(t))) = SubSeq(t, 1, Min(Len(s), Len(t)))
OpsOf(frames) == [j \in 1..Len(frames) |-> frames[j].op]

C11_OpOnlyDispatch ==
    /\ AgreeSoFar(calls["A"], calls["B"])
    /\ AgreeSoFar(OpsOf(resp["A"].written), OpsOf(resp["B"].written))
    /\ (outcome["A"].tag = "Ok" /\ outcome["B"].tag = "Ok") =>
          /\ calls["A"] = calls["B"]
          /\ Len(resp["A"].written) = Len(resp["B"].written)
          /\ \A j \in 1..Len(resp["A"].written) :
                [resp["A"].written[j] EXCEPT !.msgid = 0]
                    = [resp["B"].written[j] EXCEPT !.msgid = 0]

\* Both runs ended with Ok after answering the same operation, received with
\* different msgids and controls, with two frames that differ in the msgid.
C11_Witness ==
    /\ outcome["A"].tag = "Ok"
    /\ outcome["B"].tag = "Ok"
    /\ Len(requests["A"].items) = 1
    /\ requests["A"].items[1].msgid /= requests["B"].items[1].msgid
    /\ requests["A"].items[1].ctrl /= requests["B"].items[1].ctrl
    /\ calls["A"] = <<"SearchRequest">>
    /\ calls["B"] = <<"SearchRequest">>
    /\ Len(resp["A"].written) = 2
    /\ Len(resp["B"].written) = 2
    /\ resp["A"].written[1].msgid /= resp["B"].written[1].msgid

\* ------------------------------------------------------------------ C12
\* C12: every frame handed to the writer has an empty controls list.
C12_NoControlsOut ==
    \A c \in Conns : \A j \in 1..Len(resp[c].written) :
        /\ resp[c].written[j].kind = "msg"
        /\ resp[c].written[j].ctrl = <<>>

\* A request that carried a control has been answered.
C12_Witness ==
    /\ Len(resp["A"].written) >= 1
    /\ requests["A"].items[1].ctrl = <<"ctrl">>
    /\ resp["A"].written[1].msgid = requests["A"].items[1].msgid

\* ------------------------------------------------------------------ C13
\* C13: once the future of a connection has completed, with Ok or with an
\* error, no step changes anything of that connection: nothing is pulled,
\* dispatched, written or flushed on it again, whatever else goes on.
Terminated(c) == pc[c] = "done" \/ outcome[c].tag /= "Pending"
ConnState(c) ==
    <<pc[c], requests[c], resp[c], session[c], msg[c], result[c], iter[c],
      ret[c], outcome[c], calls[c], returns[c], log[c]>>

C13_TerminationAbsorbing ==
    [][\A c \in Conns : Terminated(c) => ConnState(c)' = ConnState(c)]_vars

\* A has ended on a failed flush of its reply while B is still in its handler.
C13_Witness ==
    /\ pc["A"] = "done"
    /\ outcome["A"].tag = "Err"
    /\ outcome["A"].cause = "flush"
    /\ Len(resp["A"].written) >= 1
    /\ pc["B"] = "dispatch"

\* ------------------------------------------------------------------ C14
\* C14: no item is dispatched twice, no operation of a batch is sent twice
\* and no batch is flushed twice by the loop, failed attempts included; the
\* handler was called as often as items were dispatched and the writer holds
\* one frame per send that got its frame in.
IsSendAttempt(e) == e.ev \in {"send", "sendflush"}

EventsNamed(c, ev) == {j \in 1..Len(log[c]) : log[c][j].ev = ev}
SendAttempts(c) == {j \in 1..Len(log[c]) : IsSendAttempt(log[c][j])}

C14_NothingRetried ==
    \A c \in Conns :
        /\ \A ev \in {"next", "recv", "dispatch", "return", "flush"} :
              LET E == EventsNamed(c, ev) IN
              Cardinality({log[c][j].n : j \in E}) = Cardinality(E)
        /\ LET S == SendAttempts(c) IN
           Cardinality({<<log[c][j].n, log[c][j].k>> : j \in S}) = Cardinality(S)
        /\ Len(calls[c]) = Cardinality(DispatchesOf(c))
        /\ Len(calls[c]) <= requests[c].pos
        /\ Len(resp[c].written) = Len(Writes(c))

\* The second send of the second item's batch failed and the connection ended.
C14_Witness ==
    /\ pc["A"] = "done"
    /\ outcome["A"].tag = "Err"
    /\ Len(calls["A"]) = 2
    /\ \E j \in 1..Len(log["A"]) :
          log["A"][j].ev = "send" /\ log["A"][j].n = 2 /\ log["A"][j].k = 2
    /\ Len(resp["A"].written) >= 2

\* ------------------------------------------------------------------ C15
\* C15: a connection that was accepted has had exactly one LdapHandler built,
\* before anything was pulled from its reader, with the base DN and user DN
\* of the configuration; one that was not accepted has none and did nothing.
C15_OneSession ==
    \A c \in Conns :
        IF pc[c] = "idle"
        THEN /\ session[c].made = 0
             /\ requests[c].pos = 0
             /\ log[c] = <<>>
             /\ calls[c] = <<>>
        ELSE /\ session[c] = [made |-> 1, base_dn |-> LdapBaseDn, user_dn |-> LdapUserDn]
             /\ log[c][1] = Event("accept", 0, 0, TRUE)
             /\ \A j \in 2..Len(log[c]) : log[c][j].ev /= "accept"

\* The second message of the connection is in the handler of the one session.
C15_Witness ==
    /\ pc["A"] = "dispatch"
    /\ requests["A"].pos = 2
    /\ Len(calls["A"]) = 2
    /\ session["A"].made = 1

\* ------------------------------------------------------------------ C16
\* C16: with two connections interleaved, the handler of a connection is
\* called only with operations received on that connection and its writer
\* holds only replies to messages received on it; a step of one connection
\* changes nothing of the other; and a connection that has not ended can take
\* its next step whatever state the other one is in, ended or failed.
PulledOps(c) == {Item(c, n).op : n \in 1..requests[c].pos}

OwnTraffic ==
    \A c \in Conns :
        /\ \A j \in 1..Len(calls[c]) : calls[c][j] \in PulledOps(c)
        /\ \A j \in 1..Len(resp[c].written) : resp[c].written[j].msgid \in PulledMsgIds(c)
        /\ Len(resp[c].written) = Len(Writes(c))
        /\ pc[c] /= "done" => ENABLED Step(c)

OneConnPerStep ==
    \A c \in Conns :
        ConnState(c)' /= ConnState(c) => ConnState(Other(c))' = ConnState(Other(c))

C16_ConnectionsIsolated == []OwnTraffic /\ [][OneConnPerStep]_vars

\* A has ended on a decode error; B, which wrote nothing to A, is being answered.
C16_Witness ==
    /\ pc["A"] = "done"
    /\ outcome["A"].tag = "Err"
    /\ outcome["A"].cause = "decode"
    /\ pc["B"] = "send"
    /\ Len(result["B"].ops) = 2
    /\ Len(resp["B"].written) = 1
    /\ resp["A"].written = <<>>

\* ------------------------------------------------------------------ C17
\* C17: the frames the writer has taken are a prefix of the handler's batches
\* so far, each operation tagged with the msgid of its request, in order; and
\* after a failed send of the k-th operation of a batch the writer has taken
\* exactly the first k-1 operations of that batch.
RECURSIVE TaggedBatches(_, _)
TaggedBatches(c, i) ==
    IF i = 0 THEN <<>>
    ELSE TaggedBatches(c, i - 1) \o
         [j \in 1..Len(returns[c][i].ops) |->
            [kind |-> "msg", msgid |-> Item(c, i).msgid,
             op |-> returns[c][i].ops[j], ctrl |-> <<>>]]

IsPrefix(s, t) == Len(s) <= Len(t) /\ s = SubSeq(t, 1, Len(s))

C17_WrittenIsPrefix ==
    \A c \in Conns :
        /\ IsPrefix(resp[c].written, TaggedBatches(c, Len(returns[c])))
        /\ \A j \in 1..Len(log[c]) :
              (IsSendAttempt(log[c][j]) /\ ~log[c][j].ok) =>
                  Cardinality(WritesFor(c, log[c][j].n)) = log[c][j].k - 1

\* ------------------------------------------------------------------ C18
\* C18: from the pull of an item up to the handler's answer, and after the
\* answer None up to the loop's exit, no step touches the writer: when the
\* handler answers None the writer is as it was before the item was received.
C18_TerminateLeavesWriter ==
    [][\A c \in Conns :
          (\/ pc[c] \in {"next", "handle", "dispatch"}
           \/ pc[c] = "ret" /\ ret[c] = Ok(FALSE)) => resp'[c] = resp[c]]_vars

\* The second item was answered with None after the first was answered with a frame.
C18_Witness ==
    /\ pc["A"] = "done"
    /\ outcome["A"].tag = "Ok"
    /\ requests["A"].pos = 2
    /\ result["A"] = None
    /\ Len(returns["A"]) = 2
    /\ Len(resp["A"].written) >= 1
    /\ resp["A"].flushed = Len(resp["A"].written)

\* ------------------------------------------------------------------ C19
\* C19: the loop of a connection with a finite stream ends; and when it ends
\* without error, every item up to and including the first one the handler
\* answered with None (every item of the stream, if there is none) was
\* dispatched exactly once, and no item after that one.
NoneReturns(c) == {j \in Returned(c) : ~log[c][j].ok}

DispatchedOnce(c) ==
    /\ \A n \in 1..requests[c].pos :
          Cardinality({j \in DispatchesOf(c) : log[c][j].n = n}) = 1
    /\ Len(calls[c]) = requests[c].pos
    /\ Len(returns[c]) = requests[c].pos
    /\ IF NoneReturns(c) = {}
       THEN requests[c].pos = Len(requests[c].items)
       ELSE /\ Cardinality(NoneReturns(c)) = 1
            /\ \A j \in NoneReturns(c) : log[c][j].n = requests[c].pos

C19_LoopTerminates ==
    <>(/\ pc["A"] = "done"
       /\ outcome["A"].tag \in {"Ok", "Err"}
       /\ outcome["A"].tag = "Ok" => DispatchedOnce("A"))

\* Two items were dispatched, the second answered with None, and the loop ended.
C19_Witness ==
    /\ pc["A"] = "done"
    /\ outcome["A"].tag = "Ok"
    /\ Len(requests["A"].items) = 2
    /\ Len(calls["A"]) = 2
    /\ returns["A"][2] = None
    /\ returns["A"][1].some

====
